---- MODULE Spec2Model ----
(***************************************************************************)
(* gitlab-loglady: changelog rendering, the year-file archive merge, the   *)
(* CLI run (main) and the Slack publisher, as state machines.  Text is     *)
(* modelled as TLA+ strings, character for character.                      *)
(***************************************************************************)
EXTENDS Integers, Sequences, FiniteSets, TLC

VARIABLES
    archive,    \* archive_dir: year -> the file <year>.md (Absent when no file)
    merges,     \* number of append_to_year_changelog calls made so far
    last,       \* the last call: its arguments, what it read and what it did
    run,        \* the run of main in progress: its inputs, locals and position
    output,     \* the file args.output
    posts,      \* the texts POSTed to the webhook by the run in progress
    runs        \* number of runs of main started so far

vars == <<archive, merges, last, run, output, posts, runs>>

----------------------------------------------------------------------------
(* Python values *)

\* None, for an optional date (datetime or None)
None == [y |-> 0, m |-> 0, d |-> 0, H |-> 0, M |-> 0, S |-> 0]

\* os.path.exists(year_file) is false
Absent == [exists |-> FALSE, text |-> ""]

File(t) == [exists |-> TRUE, text |-> t]

\* a str value / a list value of a dict (Python values carry their type)
PyStr(s) == [kind |-> "str", s |-> s, l |-> <<>>]

PyList(l) == [kind |-> "list", s |-> "", l |-> l]

Min(S) == CHOOSE x \in S : \A y \in S : x <= y

\* the least element of S, d when S is empty
MinOr(S, d) == IF S = {} THEN d ELSE Min(S)

----------------------------------------------------------------------------
(* str operations *)

CharAt(s, i) == SubSeq(s, i, i)

\* the start positions of the literal k in s
Occ(s, k) == {i \in 1..(Len(s) - Len(k) + 1) : SubSeq(s, i, i + Len(k) - 1) = k}

\* k in s
Contains(s, k) == Occ(s, k) # {}

\* s.startswith(k)
StartsWith(s, k) == Len(k) <= Len(s) /\ SubSeq(s, 1, Len(k)) = k

Whitespace == {" ", "\n", "\t", "\r", "\f"}

RECURSIVE rstrip(_)
\* s.rstrip()
rstrip(s) ==
    IF s # "" /\ CharAt(s, Len(s)) \in Whitespace
    THEN rstrip(SubSeq(s, 1, Len(s) - 1))
    ELSE s

RECURSIVE lstrip(_)
\* s.lstrip()
lstrip(s) ==
    IF s # "" /\ CharAt(s, 1) \in Whitespace THEN lstrip(Tail(s)) ELSE s

\* s.strip()
strip(s) == lstrip(rstrip(s))

RECURSIVE rstrip_chars(_, _)
\* s.rstrip(c) for one character c
rstrip_chars(s, c) ==
    IF s # "" /\ CharAt(s, Len(s)) = c
    THEN rstrip_chars(SubSeq(s, 1, Len(s) - 1), c)
    ELSE s

\* the k-th least element of a set of numbers
Nth(S, k) == CHOOSE x \in S : Cardinality({y \in S : y < x}) = k - 1

\* the pieces of s between the cuts, places of a one-character separator
Pieces(s, cuts) ==
    [k \in 1..(Cardinality(cuts) + 1) |->
        SubSeq(s, IF k = 1 THEN 1 ELSE Nth(cuts, k - 1) + 1,
                  IF k = Cardinality(cuts) + 1 THEN Len(s) ELSE Nth(cuts, k) - 1)]

\* s.split(sep) for a one-character sep
split(s, sep) == Pieces(s, Occ(s, sep))

Digits == {"0", "1", "2", "3", "4", "5", "6", "7", "8", "9"}

\* the characters of code points 32..95, in order
AsciiLow == " !\"#$%&'()*+,-./0123456789:;<=>?@ABCDEFGHIJKLMNOPQRSTUVWXYZ[\\]^_"

\* the characters of code points 97..126, in order
AsciiHigh == "abcdefghijklmnopqrstuvwxyz{|}~"

UpperCase == "ABCDEFGHIJKLMNOPQRSTUVWXYZ"

LowerCase == "abcdefghijklmnopqrstuvwxyz"

\* ord(c)
Ord(c) ==
    IF c = "\t" THEN 9
    ELSE IF c = "\n" THEN 10
    ELSE IF c = "\f" THEN 12
    ELSE IF c = "\r" THEN 13
    ELSE IF Occ(AsciiLow, c) # {} THEN 31 + Min(Occ(AsciiLow, c))
    ELSE 96 + Min(Occ(AsciiHigh, c))

\* the first position where a and b differ, 0 when one is a prefix of the other
FirstDiff(a, b) ==
    MinOr({i \in 1..(IF Len(a) < Len(b) THEN Len(a) ELSE Len(b)) :
              CharAt(a, i) # CharAt(b, i)}, 0)

StrLessAt(a, b, i) ==
    IF i = 0 THEN Len(a) < Len(b) ELSE Ord(CharAt(a, i)) < Ord(CharAt(b, i))

\* a < b on str: by code point, a proper prefix first
StrLess(a, b) == StrLessAt(a, b, FirstDiff(a, b))

RECURSIVE lower(_)
\* s.lower()
lower(s) ==
    IF s = "" THEN ""
    ELSE (IF Occ(UpperCase, CharAt(s, 1)) = {} THEN CharAt(s, 1)
          ELSE CharAt(LowerCase, Min(Occ(UpperCase, CharAt(s, 1)))))
         \o lower(Tail(s))

\* str(n) for n >= 0
Str(n) == ToString(n)

\* '%02d' and '%04d' of strftime
Pad2(n) == IF n < 10 THEN "0" \o Str(n) ELSE Str(n)

Pad4(n) ==
    IF n < 10 THEN "000" \o Str(n)
    ELSE IF n < 100 THEN "00" \o Str(n)
    ELSE IF n < 1000 THEN "0" \o Str(n)
    ELSE Str(n)

\* d.strftime('%Y-%m-%d')
strftime_date(d) == Pad4(d.y) \o "-" \o Pad2(d.m) \o "-" \o Pad2(d.d)

\* t.strftime('%Y-%m-%d %H:%M:%S')
strftime_datetime(t) ==
    strftime_date(t) \o " " \o Pad2(t.H) \o ":" \o Pad2(t.M) \o ":" \o Pad2(t.S)

\* f"{n/d:.1f}" for n/d >= 0 that a float holds exactly: round half to even
Fmt1(n, d) ==
    LET q == (10 * n) \div d
        r == (10 * n) % d
        t == IF 2 * r > d \/ (2 * r = d /\ q % 2 = 1) THEN q + 1 ELSE q
    IN  Str(t \div 10) \o "." \o Str(t % 10)

----------------------------------------------------------------------------
(* ChangelogGenerator: rendering (src/src/changelog_generator.py) *)

\* The three characters between the dates in the header f-string of line 94
\* (U+00E2, U+2020, U+2019), written here in ASCII.
HeaderArrow == "a+'"

\* dict.get(k): found, and the value
DictGet(dict, k) ==
    IF k \in DOMAIN dict THEN [found |-> TRUE, value |-> dict[k]]
    ELSE [found |-> FALSE, value |-> PyStr("")]

\* not v, for the value dict.get returned (None, '' and [] are false)
Falsy(g) == ~g.found \/ (g.value.kind = "str" /\ g.value.s = "")
                     \/ (g.value.kind = "list" /\ g.value.l = <<>>)

\* the key group_issues_by_product files the issue under
ProductOf(repos_to_products, issue) ==
    LET g == DictGet(repos_to_products, issue.project_url)
    IN  IF Falsy(g) THEN "Uncategorized" ELSE g.value.s

\* grouped[product] raises TypeError: a list is no dict key
Unhashable(repos_to_products, issue) ==
    LET g == DictGet(repos_to_products, issue.project_url)
    IN  ~Falsy(g) /\ g.value.kind = "list"

group_issues_by_product(repos_to_products, issues) ==
    LET keys == {ProductOf(repos_to_products, issues[i]) : i \in 1..Len(issues)}
    IN  [p \in keys |->
            SelectSeq(issues, LAMBDA x : ProductOf(repos_to_products, x) = p)]

RECURSIVE Join(_, _)
\* sep.join(parts)
Join(sep, parts) ==
    IF parts = <<>> THEN ""
    ELSE IF Len(parts) = 1 THEN parts[1]
    ELSE parts[1] \o sep \o Join(sep, Tail(parts))

format_issue_line(issue) ==
    LET labels == SelectSeq(issue.labels, LAMBDA l : ~StartsWith(l, "@"))
        issue_ref == issue.project_name \o "#" \o Str(issue.iid)
    IN  IF labels # <<>>
        THEN "* " \o issue.title \o " (" \o issue_ref \o ") (" \o Join(", ", labels) \o ")"
        ELSE "* " \o issue.title \o " (" \o issue_ref \o ")"

\* the product key without its first component: the name alone
ProductKeyLess_by_name(a, b) == StrLess(a, b)

\* (a == 'Uncategorized', a) < (b == 'Uncategorized', b)
ProductKeyLess(a, b) ==
    LET ua == (a = "Uncategorized")
        ub == (b = "Uncategorized")
    IN  (~ua /\ ub) \/ (ua = ub /\ StrLess(a, b))

\* sorted(grouped_issues.keys(), key=lambda x: (x == 'Uncategorized', x))
sorted_products(grouped) ==
    LET keys == DOMAIN grouped
        rank(k) == Cardinality({j \in keys : ProductKeyLess(j, k)})
    IN  [i \in 1..Cardinality(keys) |-> CHOOSE k \in keys : rank(k) = i - 1]

\* x['title'].lower() < y['title'].lower()
IssueKeyLess(x, y) == StrLess(lower(x.title), lower(y.title))

\* the issues sorted by title as it is written, upper case before lower case
sorted_issues_case_sensitive(product_issues) ==
    LET n == Len(product_issues)
        rank(i) == Cardinality({j \in 1..n :
                       \/ StrLess(product_issues[j].title, product_issues[i].title)
                       \/ /\ ~StrLess(product_issues[i].title, product_issues[j].title)
                          /\ j < i})
    IN  [r \in 1..n |-> product_issues[CHOOSE i \in 1..n : rank(i) = r - 1]]

\* sorted(product_issues, key=lambda x: x['title'].lower()), a stable sort
sorted_issues(product_issues) ==
    LET n == Len(product_issues)
        rank(i) == Cardinality({j \in 1..n :
                       \/ IssueKeyLess(product_issues[j], product_issues[i])
                       \/ /\ ~IssueKeyLess(product_issues[i], product_issues[j])
                          /\ j < i})
    IN  [r \in 1..n |-> product_issues[CHOOSE i \in 1..n : rank(i) = r - 1]]

RECURSIVE IssueLines(_)
IssueLines(issues) ==
    IF issues = <<>> THEN ""
    ELSE format_issue_line(Head(issues)) \o "\n" \o IssueLines(Tail(issues))

\* one product section: its title line, its issue lines, a blank line
ProductSection(product, product_issues) ==
    "**" \o product \o "** (" \o Str(Len(product_issues)) \o " issues)\n"
    \o IssueLines(sorted_issues(product_issues)) \o "\n"

RECURSIVE ProductSections(_, _)
ProductSections(products, grouped) ==
    IF products = <<>> THEN ""
    ELSE ProductSection(Head(products), grouped[Head(products)])
         \o ProductSections(Tail(products), grouped)

RECURSIVE TotalEstimate(_)
\* sum(issue['time_stats']['time_estimate'] for issue in issues)
TotalEstimate(issues) ==
    IF issues = <<>> THEN 0
    ELSE Head(issues).time_estimate + TotalEstimate(Tail(issues))

\* "---", the total line and the estimate when there is one
Statistics(issues) ==
    LET total_time_estimate == TotalEstimate(issues)
    IN  "---\n" \o "Total: " \o Str(Len(issues)) \o " issues closed"
        \o (IF total_time_estimate > 0
            THEN " | Estimated: " \o Fmt1(total_time_estimate, 3600) \o "h ("
                 \o Fmt1(total_time_estimate, 3600 * 8) \o "d)"
            ELSE "")
        \o "\n"

\* the header line and the blank line after it
Header(milestone_name, start_date, due_date) ==
    LET start_str == IF start_date # None THEN strftime_date(start_date) ELSE "N/A"
        due_str == IF due_date # None THEN strftime_date(due_date) ELSE "N/A"
    IN  "**Changelog - " \o milestone_name \o "** (" \o start_str \o " "
        \o HeaderArrow \o " " \o due_str \o ")\n\n"

\* generate_changelog raises (TypeError) instead of returning
GenerateRaises(repos_to_products, issues) ==
    \E i \in 1..Len(issues) : Unhashable(repos_to_products, issues[i])

generate_changelog(repos_to_products, milestone_name, start_date, due_date, issues) ==
    LET grouped_issues == group_issues_by_product(repos_to_products, issues)
    IN  Header(milestone_name, start_date, due_date)
        \o ProductSections(sorted_products(grouped_issues), grouped_issues)
        \o Statistics(issues)

----------------------------------------------------------------------------
(* The year-file merge (append_to_year_changelog) *)

\* int(c) of a digit
DigitVal(c) == Ord(c) - 48

\* the positions where re.search(r'(\d{4})', s) can match
FourDigits(s) ==
    {i \in 1..(Len(s) - 3) : \A k \in 0..3 : CharAt(s, i + k) \in Digits}

\* int(year_match.group(1)) of the leftmost match
TitleYear(s) ==
    LET i == Min(FourDigits(s))
    IN  1000 * DigitVal(CharAt(s, i)) + 100 * DigitVal(CharAt(s, i + 1))
        + 10 * DigitVal(CharAt(s, i + 2)) + DigitVal(CharAt(s, i + 3))

\* the year rule with the start date looked at before the due date
milestone_year_start_first(start_date, due_date, milestone_name, now) ==
    IF start_date # None THEN start_date.y
    ELSE IF due_date # None THEN due_date.y
    ELSE IF FourDigits(milestone_name) # {} THEN TitleYear(milestone_name)
    ELSE now.y

\* lines 189-203: the year whose file the merge works on
milestone_year(start_date, due_date, milestone_name, now) ==
    IF due_date # None THEN due_date.y
    ELSE IF start_date # None THEN start_date.y
    ELSE IF FourDigits(milestone_name) # {} THEN TitleYear(milestone_name)
    ELSE now.y

\* the identity key of a milestone's block
MilestoneKey(milestone_name) == "**Changelog - " \o milestone_name \o "**"

\* what the lookahead (?=\n\*\*Changelog - |\Z) looks for
NextHeader == "\n**Changelog - "

\* re.search(re.escape(key), existing_content): the key as a literal
milestone_exists(existing_content, milestone_name) ==
    Contains(existing_content, MilestoneKey(milestone_name))

\* the footer appended to the rendered entry (line 221)
GeneratedFooter(now) ==
    "\n---\n*Generated on " \o strftime_datetime(now) \o "*\n\n"

\* The escapes of a re.sub replacement string that stand for one character.
\* \a, \b, \v and \0 give control characters a string of this module cannot
\* hold; they are written "^".
EscapeChar(c) ==
    IF c = "n" THEN "\n"
    ELSE IF c = "t" THEN "\t"
    ELSE IF c = "r" THEN "\r"
    ELSE IF c = "f" THEN "\f"
    ELSE IF c = "\\" THEN "\\"
    ELSE "^"

EscapeLetters == {"n", "t", "r", "f", "a", "b", "v"}

IsAsciiLetter(c) == Occ(UpperCase, c) # {} \/ Occ(LowerCase, c) # {}

\* One escape of a replacement string, the backslash at position i: whether
\* it is valid, the text it stands for and where the scan goes on.  m is the
\* text matched (\g<0>).  A digit is a group reference, and the pattern has no
\* group (a three-digit octal escape is not modelled).
Escape(repl, i, c, m) ==
    IF i = Len(repl) THEN [ok |-> FALSE, text |-> "", next |-> i]
    ELSE IF c \in EscapeLetters \/ c = "\\" \/ c = "0"
      THEN [ok |-> TRUE, text |-> EscapeChar(c), next |-> i + 2]
    ELSE IF c = "g"
      THEN IF SubSeq(repl, i + 2, i + 4) = "<0>"
           THEN [ok |-> TRUE, text |-> m, next |-> i + 5]
           ELSE [ok |-> FALSE, text |-> "", next |-> i]
    ELSE IF c \in Digits \/ IsAsciiLetter(c)
      THEN [ok |-> FALSE, text |-> "", next |-> i]
    ELSE [ok |-> TRUE, text |-> "\\" \o c, next |-> i + 2]

TemplateJoin(before, piece, rest) ==
    IF ~piece.ok \/ ~rest.ok THEN [ok |-> FALSE, text |-> ""]
    ELSE [ok |-> TRUE, text |-> before \o piece.text \o rest.text]

RECURSIVE ExpandTemplate(_, _, _, _)
ExpandEscape(repl, p, m, bs, i, piece) ==
    TemplateJoin(SubSeq(repl, p, i - 1), piece,
                 IF piece.ok
                 THEN ExpandTemplate(repl, piece.next, m, {j \in bs : j >= piece.next})
                 ELSE piece)

\* The replacement string of re.sub, from position p on, with its backslash
\* escapes processed as the re module does; bs holds the positions of the
\* backslashes from p on.  ok is false where re.sub raises re.error.
ExpandTemplate(repl, p, m, bs) ==
    IF bs = {} THEN [ok |-> TRUE, text |-> SubSeq(repl, p, Len(repl))]
    ELSE ExpandEscape(repl, p, m, bs, Min(bs),
                      Escape(repl, Min(bs), CharAt(repl, Min(bs) + 1), m))

\* the replacement string with m for the text matched
expand_template(repl, m) == ExpandTemplate(repl, 1, m, Occ(repl, "\\"))

\* where the match that starts at st ends: `.*?` with DOTALL stops at the
\* first "\n**Changelog - " at or after the key's end, else at the end of text
MatchEnd(text, st, key, headers) ==
    MinOr({e \in headers : e >= st + Len(key)}, Len(text) + 1)

RECURSIVE SubFrom(_, _, _, _, _, _)
SubMatch(text, p, key, repl, keys, headers, st, e) ==
    SubSeq(text, p, st - 1)
    \o expand_template(repl, SubSeq(text, st, e - 1)).text
    \o SubFrom(text, e, key, repl, {i \in keys : i >= e}, headers)

\* re.sub from position p on: every non-overlapping match, left to right;
\* keys holds the positions of the key from p on, headers those of NextHeader
SubFrom(text, p, key, repl, keys, headers) ==
    IF keys = {} THEN SubSeq(text, p, Len(text))
    ELSE SubMatch(text, p, key, repl, keys, headers,
                  Min(keys), MatchEnd(text, Min(keys), key, headers))

\* re.sub(pattern, repl, existing_content, flags=re.DOTALL) of lines 237-246
re_sub(existing_content, milestone_name, repl) ==
    IF ~expand_template(repl, "").ok THEN [ok |-> FALSE, text |-> ""]
    ELSE [ok |-> TRUE,
          text |-> SubFrom(existing_content, 1, MilestoneKey(milestone_name), repl,
                           Occ(existing_content, MilestoneKey(milestone_name)),
                           Occ(existing_content, NextHeader))]

\* new_entry of lines 212-221
new_entry(repos_to_products, milestone_name, start_date, due_date, issues, now) ==
    generate_changelog(repos_to_products, milestone_name, start_date, due_date, issues)
    \o GeneratedFooter(now)

\* Lines 229-258: what the call writes to the year-file, given what it read
\* (existing_content is "" when there is no file).  raises: the call ends with
\* an exception before it opens the file for writing.
Replaced(r) == [raises |-> ~r.ok, text |-> r.text]

\* the merge with a new entry written below the existing text
year_file_content_appends(existing_content, milestone_name, entry) ==
    IF milestone_exists(existing_content, milestone_name)
    THEN Replaced(re_sub(existing_content, milestone_name, rstrip(entry) \o "\n\n"))
    ELSE [raises |-> FALSE, text |-> existing_content \o entry]

year_file_content(existing_content, milestone_name, entry) ==
    IF milestone_exists(existing_content, milestone_name)
    THEN Replaced(re_sub(existing_content, milestone_name, rstrip(entry) \o "\n\n"))
    ELSE [raises |-> FALSE, text |-> entry \o existing_content]

----------------------------------------------------------------------------
(* Inputs of the merge *)

\* calls of append_to_year_changelog in one behaviour of Spec
MaxMerges == 3

\* calls of append_to_year_changelog in one behaviour of SpecYear
MaxYearMerges == 2

Date(y, m, d) == [y |-> y, m |-> m, d |-> d, H |-> 0, M |-> 0, S |-> 0]

\* datetime.now() of the n-th call (line 220): one second per call, across
\* the turn of a year
Clock(n) ==
    IF n < 2 THEN [y |-> 2025, m |-> 12, d |-> 31, H |-> 23, M |-> 59, S |-> 58 + n]
    ELSE [y |-> 2026, m |-> 1, d |-> 1, H |-> 0, M |-> 0, S |-> n - 2]

\* the years a file of the archive can be named for in this model
Years == {1234, 1999, 2023, 2024, 2025, 2026}

Issue(iid, title, labels, project_name, project_url, time_estimate) ==
    [iid |-> iid, title |-> title, labels |-> labels, project_name |-> project_name,
     project_url |-> project_url, time_estimate |-> time_estimate]

UrlA == "https://git/g/svc-a"

UrlB == "https://git/g/svc-b"

UrlX == "https://git/g/other"

\* a repos_to_products as the class documents it: repository URL -> product
ReposToProducts == (UrlA :> PyStr("Core")) @@ (UrlB :> PyStr("Api"))

FixBug == Issue(7, "Fix bug", <<>>, "svc-a", UrlA, 3600)

\* a title with a backslash and "n": the two characters, not a newline
BackslashN == Issue(8, "Use a\\nb", <<"bug", "@team">>, "svc-b", UrlB, 0)

\* a title with a backslash and "d", as in a Windows path
BackslashD == Issue(9, "C:\\dir", <<>>, "other", UrlX, 0)

IssueLists == {<<>>, <<FixBug>>, <<BackslashN>>, <<BackslashD, FixBug>>}

\* "S1**b" has the key of "S1" at the start of its own key
Titles == {"S1", "S1**b", "S2"}

Call(name, start, due, issues) ==
    [milestone_name |-> name, start_date |-> start, due_date |-> due, issues |-> issues]

\* the calls of Spec: milestones of one year
Calls ==
    {Call(t, Date(2025, 1, 1), Date(2025, 1, 15), i) : t \in Titles, i \in IssueLists}

YearTitles == {"S1", "R1999", "12345x2000"}

\* the calls of SpecYear: every combination of dates and titles
YearCalls ==
    {Call(t, s, d, <<>>) : t \in YearTitles,
                           s \in {None, Date(2023, 12, 20)},
                           d \in {None, Date(2024, 1, 10)}}

----------------------------------------------------------------------------
(* append_to_year_changelog as one step *)

NoCall == Call("", None, None, <<>>)

NoLast ==
    [call |-> NoCall, year |-> 0, now |-> None, before |-> Absent, entry |-> "",
     did |-> "none", repeat |-> FALSE, archive_before |-> [y \in Years |-> Absent],
     order |-> [y \in Years |-> <<>>]]

\* existing_content of lines 224-227
ReadYearFile(f) == IF f.exists THEN f.text ELSE ""

\* the write that also empties every other year-file that holds a block of
\* the milestone
AppendOutcome_moves_block(arch, call, year, entry, existed, r) ==
    IF r.raises
    THEN [year |-> year, entry |-> entry, did |-> "raised", archive |-> arch]
    ELSE [year |-> year, entry |-> entry,
          did |-> IF existed THEN "updated" ELSE "added",
          archive |-> [y \in Years |->
              IF y = year THEN File(r.text)
              ELSE IF milestone_exists(ReadYearFile(arch[y]), call.milestone_name)
                   THEN File("")
                   ELSE arch[y]]]

AppendOutcome(arch, call, year, entry, existed, r) ==
    IF r.raises
    THEN [year |-> year, entry |-> entry, did |-> "raised", archive |-> arch]
    ELSE [year |-> year, entry |-> entry,
          did |-> IF existed THEN "updated" ELSE "added",
          archive |-> [arch EXCEPT ![year] = File(r.text)]]

AppendToYear(arch, call, year, entry) ==
    AppendOutcome(arch, call, year, entry,
                  milestone_exists(ReadYearFile(arch[year]), call.milestone_name),
                  year_file_content(ReadYearFile(arch[year]), call.milestone_name, entry))

\* The whole call on the archive: select the year-file, render, read, merge,
\* write.  did: "added" (line 260), "updated" (line 252) or "raised".
AppendResult(repos_to_products, arch, call, now) ==
    IF GenerateRaises(repos_to_products, call.issues)
    THEN [year |-> 0, entry |-> "", did |-> "raised", archive |-> arch]
    ELSE AppendToYear(arch, call,
             milestone_year(call.start_date, call.due_date, call.milestone_name, now),
             new_entry(repos_to_products, call.milestone_name, call.start_date,
                       call.due_date, call.issues, now))

\* the record of a call kept for the properties; order: per year-file, the
\* titles in the order of their first merge
LastCall(call, now, res) ==
    [call |-> call, year |-> res.year, now |-> now,
     before |-> IF res.year = 0 THEN Absent ELSE archive[res.year],
     entry |-> res.entry, did |-> res.did,
     repeat |-> (last.call = call /\ last.did \notin {"raised", "none"}
                 /\ last.year = res.year),
     archive_before |-> archive,
     order |-> IF res.did \in {"added", "updated"}
                  /\ ~\E k \in 1..Len(last.order[res.year]) :
                         last.order[res.year][k] = call.milestone_name
               THEN [last.order EXCEPT ![res.year] = Append(@, call.milestone_name)]
               ELSE last.order]

Appended(call, now, res) ==
    /\ archive' = res.archive
    /\ last' = LastCall(call, now, res)

append_to_year_changelog(call, bound) ==
    /\ merges < bound
    /\ Appended(call, Clock(merges), AppendResult(ReposToProducts, archive, call, Clock(merges)))
    /\ merges' = merges + 1
    /\ UNCHANGED <<run, output, posts, runs>>

NoRun == [pc |-> "none"]

Init ==
    /\ archive = [y \in Years |-> Absent]
    /\ merges = 0
    /\ last = NoLast
    /\ run = NoRun
    /\ output = Absent
    /\ posts = <<>>
    /\ runs = 0

Merge == \E call \in Calls : append_to_year_changelog(call, MaxMerges)

Next == Merge

Spec == Init /\ [][Next]_vars

MergeYear == \E call \in YearCalls : append_to_year_changelog(call, MaxYearMerges)

NextYear == MergeYear

SpecYear == Init /\ [][NextYear]_vars

----------------------------------------------------------------------------
(* Reading a year-file back *)

TimestampLen == 19

RECURSIVE NormaliseFrom(_, _, _)
\* text from position p on, the timestamp after each "*Generated on " (whose
\* positions from p on are marks) replaced by "T"
NormaliseFrom(text, p, marks) ==
    IF marks = {} THEN SubSeq(text, p, Len(text))
    ELSE SubSeq(text, p, Min(marks) + 13) \o "T"
         \o NormaliseFrom(text, Min(marks) + 14 + TimestampLen,
                          {i \in marks : i > Min(marks)})

\* the text with every "Generated on" timestamp normalised
Normalise(text) == NormaliseFrom(text, 1, Occ(text, "*Generated on "))

\* the positions of the top-level blocks of a title: its header, the key and
\* " (", at the start of a line
Blocks(text, title) ==
    {i \in Occ(text, MilestoneKey(title) \o " (") : i = 1 \/ CharAt(text, i - 1) = "\n"}

\* the text of the year-file the last call selected, before and after the call
TextBefore == ReadYearFile(last.before)

TextAfter == ReadYearFile(archive[last.year])

LastKey == MilestoneKey(last.call.milestone_name)

\* the first place of the key in the text read, and the "\n" before the next
\* header after it (the end of the text when there is none)
KeyAt == Min(Occ(TextBefore, LastKey))

SpanEnd == MatchEnd(TextBefore, KeyAt, LastKey, Occ(TextBefore, NextHeader))

\* the text before the key / from the next header line (after its "\n") on
TextBeforeKey == SubSeq(TextBefore, 1, KeyAt - 1)

FromNextHeader == SubSeq(TextBefore, SpanEnd + 1, Len(TextBefore))

EndsWith(s, k) == Len(k) <= Len(s) /\ SubSeq(s, Len(s) - Len(k) + 1, Len(s)) = k

\* the rendered entry of the last call with its footer, as the code builds it
LastEntry ==
    new_entry(ReposToProducts, last.call.milestone_name, last.call.start_date,
              last.call.due_date, last.call.issues, last.now)

----------------------------------------------------------------------------
(* Properties of the merge *)

\* C1: merging the same rendered entry a second time leaves the year-file
\* text as the first merge left it, once the timestamps are normalised.
C1_Idempotent ==
    last.repeat => Normalise(TextAfter) = Normalise(TextBefore)

\* C2: each milestone title has at most one top-level block in the year-file.
C2_OneBlockPerTitle ==
    \A y \in Years : \A t \in Titles :
        Cardinality(Blocks(ReadYearFile(archive[y]), t)) <= 1

\* C3: a replacing merge leaves the text before the key and the text from the
\* next header line to the end of the file as they were.
C3_ReplaceFrame ==
    last.did = "updated" =>
        /\ StartsWith(TextAfter, TextBeforeKey)
        /\ EndsWith(TextAfter, FromNextHeader)
        /\ Len(TextAfter) >= Len(TextBeforeKey) + Len(FromNextHeader)

\* C4: when the key is present, the new text is the text before the key, the
\* footer-appended entry stripped of trailing whitespace, two newlines, and
\* the text from the next header line on; whatever characters the entry has.
C4_ReplaceResult ==
    (last.did # "none" /\ Contains(TextBefore, LastKey)) =>
        TextAfter = TextBeforeKey \o rstrip(LastEntry) \o "\n\n" \o FromNextHeader

\* C5: a merge replaces the first block that starts at the key and no later
\* one: the text after the first span is as it was.
C5_FirstSpanOnly ==
    last.did = "updated" =>
        EndsWith(TextAfter, SubSeq(TextBefore, SpanEnd, Len(TextBefore)))

\* C6: when the key does not occur in the year-file, the new text is the
\* footer-appended rendered entry followed by the whole previous text.
C6_InsertPrepends ==
    (last.did # "none" /\ ~Contains(TextBefore, LastKey)) =>
        /\ last.did = "added"
        /\ archive[last.year] = File(LastEntry \o TextBefore)

\* C6, its case: a milestone added above the block of another one
C6_Witness ==
    /\ last.did = "added"
    /\ last.call.milestone_name = "S2"
    /\ Blocks(TextBefore, "S1") # {}
    /\ Len(last.call.issues) > 0

\* what the year rule of the claim gives for the titles of YearTitles: the
\* first four consecutive digits, 0 for none
ClaimTitleYear == ("S1" :> 0) @@ ("R1999" :> 1999) @@ ("12345x2000" :> 1234)

ClaimYear(call, now) ==
    IF call.due_date # None THEN call.due_date.y
    ELSE IF call.start_date # None THEN call.start_date.y
    ELSE IF ClaimTitleYear[call.milestone_name] # 0
         THEN ClaimTitleYear[call.milestone_name]
    ELSE now.y

\* C9: the year-file a merge writes is that of the due date's year, else of
\* the start date's year, else of the first four consecutive digits of the
\* title, else of the current year; and it writes no other file.
C9_YearFile ==
    last.did # "none" =>
        /\ archive[ClaimYear(last.call, last.now)] # last.archive_before[ClaimYear(last.call, last.now)]
        /\ \A y \in Years :
               archive[y] # last.archive_before[y] => y = ClaimYear(last.call, last.now)

\* C9, its case: no date and no digits in the title, so the fourth rule
\* decides, after merges that the other rules decided
C9_Witness ==
    /\ last.did = "added"
    /\ last.call = Call("S1", None, None, <<>>)
    /\ archive[last.now.y].exists
    /\ \E y \in Years \ {last.now.y} : archive[y].exists

----------------------------------------------------------------------------
(* The hosting API as the run sees it (src/src/gitlab_client.py) *)

RECURSIVE IntOf(_)
\* int(s) of a string of digits
IntOf(s) ==
    IF s = "" THEN 0 ELSE 10 * IntOf(SubSeq(s, 1, Len(s) - 1)) + DigitVal(CharAt(s, Len(s)))

\* int(s) does not raise ValueError (surrounding blanks and a sign, which
\* int accepts too, do not occur in the arguments of this model)
IsInt(s) == s # "" /\ \A i \in 1..Len(s) : CharAt(s, i) \in Digits

\* datetime.fromisoformat of 'YYYY-MM-DD'
fromisoformat(s) ==
    Date(IntOf(SubSeq(s, 1, 4)), IntOf(SubSeq(s, 6, 7)), IntOf(SubSeq(s, 9, 10)))

Milestone(id, title, start_date, due_date) ==
    [id |-> id, title |-> title, start_date |-> start_date, due_date |-> due_date]

\* no milestone: None of get_milestone_by_name
NoMilestone == Milestone(0, "", "", "")

\* the milestones of the group; "" is a date the API gives as null.  The
\* title of the second is the id of the first.
ServerMilestones ==
    {Milestone(42, "S1", "2025-01-01", "2025-01-15"), Milestone(7, "42", "", "")}

\* the lookup taking a milestone the search lists though its title differs
get_milestone_by_name_any_listed(milestone_name) ==
    IF \E m \in ServerMilestones : m.title = milestone_name
    THEN CHOOSE m \in ServerMilestones : m.title = milestone_name
    ELSE CHOOSE m \in ServerMilestones : m.title = "S1"

\* get_milestone_by_name (lines 23-37): the milestone of that title, or None
get_milestone_by_name(milestone_name) ==
    IF \E m \in ServerMilestones : m.title = milestone_name
    THEN CHOOSE m \in ServerMilestones : m.title = milestone_name
    ELSE NoMilestone

\* get_milestone_by_id (lines 39-49): milestones.get raises GitlabGetError
\* when there is no milestone of that id
by_id_raises(milestone_id) == ~\E m \in ServerMilestones : m.id = milestone_id

get_milestone_by_id(milestone_id) ==
    CHOOSE m \in ServerMilestones : m.id = milestone_id

\* the projects of the group, by project_id
Projects ==
    (1 :> [name |-> "svc-a", web_url |-> UrlA])
    @@ (2 :> [name |-> "svc-b", web_url |-> UrlB])
    @@ (3 :> [name |-> "other", web_url |-> UrlX])

ServerIssue(iid, title, labels, project_id, time_estimate) ==
    [iid |-> iid, title |-> title, labels |-> labels, project_id |-> project_id,
     time_estimate |-> time_estimate]

\* group.issues.list(milestone=title, state='closed'): the closed issues
ClosedIssues(milestone_title) ==
    IF milestone_title = "S1"
    THEN <<ServerIssue(7, "Fix bug", <<>>, 1, 3600),
           ServerIssue(3, "Tidy", <<"chore">>, 3, 0),
           ServerIssue(8, "Use a\\nb", <<"bug", "@team">>, 2, 0)>>
    ELSE <<>>

\* lines 128-139: the dictionary kept for an issue
issue_data(issue, project) ==
    Issue(issue.iid, issue.title, issue.labels, project.name, project.web_url,
          issue.time_estimate)

\* line 104
normalized_urls(project_urls) ==
    {rstrip_chars(project_urls[i], "/") : i \in 1..Len(project_urls)}

RECURSIVE FilterIssues_stops_at_failure(_, _, _)
\* the loop given up at the first issue whose project cannot be fetched
FilterIssues_stops_at_failure(issues, urls, unresolved) ==
    IF issues = <<>> \/ Head(issues).iid \in unresolved THEN <<>>
    ELSE (IF rstrip_chars(Projects[Head(issues).project_id].web_url, "/") \in urls
          THEN <<issue_data(Head(issues), Projects[Head(issues).project_id])>>
          ELSE <<>>)
         \o FilterIssues_stops_at_failure(Tail(issues), urls, unresolved)

RECURSIVE FilterIssues(_, _, _)
\* the loop of lines 120-142: an issue whose project cannot be fetched
\* (unresolved holds its iid) is skipped, one of another repository is left out
FilterIssues(issues, urls, unresolved) ==
    IF issues = <<>> THEN <<>>
    ELSE (IF Head(issues).iid \notin unresolved
             /\ rstrip_chars(Projects[Head(issues).project_id].web_url, "/") \in urls
          THEN <<issue_data(Head(issues), Projects[Head(issues).project_id])>>
          ELSE <<>>)
         \o FilterIssues(Tail(issues), urls, unresolved)

\* get_closed_issues (lines 90-147); list_raises: the listing failed
get_closed_issues(milestone_title, project_urls, list_raises, unresolved) ==
    IF list_raises THEN <<>>
    ELSE FilterIssues(ClosedIssues(milestone_title), normalized_urls(project_urls),
                      unresolved)

----------------------------------------------------------------------------
(* Configuration (src/generate_changelog.py, lines 15-71) *)

Config(gitlab, repositories, webhook) ==
    [gitlab |-> gitlab, repositories |-> repositories, webhook |-> webhook]

GitlabKeys == {"url", "token", "group_id"}

\* [repositories] as configparser gives it: (option, value) in file order,
\* option names in lower case
RepositoriesSection ==
    <<<<"core", UrlA \o ", " \o UrlB \o "/">>, <<"tools", UrlX \o "2">>>>

\* "gitlab": the options of [gitlab], {"-"} when the section is missing;
\* "repositories": the section, <<"-">> when it is missing
Configs ==
    {Config(GitlabKeys, RepositoriesSection, TRUE),
     Config(GitlabKeys, RepositoriesSection, FALSE),
     Config(GitlabKeys, <<"-">>, TRUE),
     Config({"-"}, RepositoriesSection, TRUE),
     Config({"token", "group_id"}, RepositoriesSection, TRUE),
     Config({"url", "group_id"}, RepositoriesSection, TRUE),
     Config({"url", "token"}, RepositoriesSection, TRUE)}

\* the check of the section alone, not of its options
config_invalid_no_section(config) == "-" \in config.gitlab

\* lines 116-130: main returns 1
config_invalid(config) == \E k \in GitlabKeys : k \notin config.gitlab

RECURSIVE StripAll(_)
StripAll(parts) ==
    IF parts = <<>> THEN <<>> ELSE <<strip(Head(parts))>> \o StripAll(Tail(parts))

\* parse_repository_mapping (lines 59-71): product -> list of repositories
parse_repository_mapping(config) ==
    [p \in {config.repositories[i][1] : i \in 1..Len(config.repositories)} |->
        PyList(StripAll(split(
            (CHOOSE item \in {config.repositories[i] : i \in 1..Len(config.repositories)} :
                item[1] = p)[2], ",")))]

RECURSIVE project_urls(_, _)
\* lines 168-170: the repositories of every product, in the section's order
project_urls(repositories, repository_mapping) ==
    IF repositories = <<>> THEN <<>>
    ELSE repository_mapping[Head(repositories)[1]].l
         \o project_urls(Tail(repositories), repository_mapping)

----------------------------------------------------------------------------
(* SlackPublisher (src/src/slack_publisher.py) *)

\* max_length of _chunk_message
SlackMaxLength == 3900

RECURSIVE ChunkLoop(_, _, _, _, _, _)
\* the loop of lines 40-54, at line i of lines
ChunkLoop(lines, i, chunks, current_chunk, current_length, max_length) ==
    IF i > Len(lines)
    THEN IF current_chunk # <<>> THEN Append(chunks, Join("\n", current_chunk))
         ELSE chunks
    ELSE IF current_length + Len(lines[i]) + 1 > max_length
    THEN ChunkLoop(lines, i + 1, Append(chunks, Join("\n", current_chunk)),
                   <<lines[i]>>, Len(lines[i]) + 1, max_length)
    ELSE ChunkLoop(lines, i + 1, chunks, Append(current_chunk, lines[i]),
                   current_length + Len(lines[i]) + 1, max_length)

\* _chunk_message (lines 21-56)
chunk_message(text, max_length) ==
    IF Len(text) <= max_length THEN <<text>>
    ELSE ChunkLoop(split(text, "\n"), 1, <<>>, <<>>, 0, max_length)

\* lines 79-86: the text of the i-th request
payload_text(chunks, i) ==
    IF Len(chunks) > 1
    THEN "[Part " \o Str(i) \o "/" \o Str(Len(chunks)) \o "]\n\n" \o chunks[i]
    ELSE chunks[i]

\* what a request can end in: the body "ok", another body, or a
\* RequestException (raise_for_status on an error status among them)
PostOutcomes == {"ok", "not_ok", "exception"}

----------------------------------------------------------------------------
(* main (src/generate_changelog.py, lines 74-229), a run at a time *)

\* runs of main in one behaviour of SpecMain
MaxRuns == 2

Args(milestone, dry_run, publish_only) ==
    [milestone |-> milestone, dry_run |-> dry_run, publish_only |-> publish_only]

\* --milestone: a title, the id of a milestone (and title of another), a
\* title and an id no milestone has
MilestoneArgs == {"S1", "42", "S9", "99"}

ArgsSet == {Args(m, d, p) : m \in MilestoneArgs, d \in BOOLEAN, p \in BOOLEAN}

\* main going from get_closed_issues to the output file, past the merge
after_get_closed_issues_skips_merge == "generate"

\* the step of main that follows get_closed_issues (lines 172-197)
after_get_closed_issues == "merge"

\* the step that follows append_to_year_changelog (lines 192-205)
after_append == "generate"

\* api: the calls to the hosting API made so far; archive0, output0: the
\* files as the run found them; list_failed: the listing of the issues raised
NewRun(args, config) ==
    [pc |-> "validate", args |-> args, config |-> config,
     milestone |-> NoMilestone, repository_mapping |-> <<>>, urls |-> <<>>,
     issues |-> <<>>, year |-> 0, before |-> Absent, pending |-> "",
     merge |-> "none", others |-> [y \in Years |-> Absent],
     generated |-> FALSE, chunks |-> <<>>, i |-> 0, success |-> "none",
     exit_code |-> -1, api |-> 0, archive0 |-> archive, output0 |-> output,
     list_failed |-> FALSE]

Exit(code) == run' = [run EXCEPT !.pc = "exit", !.exit_code = code]

Goto(pc) == run' = [run EXCEPT !.pc = pc]

\* the same after a call to the hosting API
ExitAfterCall(code) ==
    run' = [run EXCEPT !.pc = "exit", !.exit_code = code, !.api = @ + 1]

GotoAfterCall(pc) == run' = [run EXCEPT !.pc = pc, !.api = @ + 1]

\* lines 218-225: success, what publish_from_file returned, decides the exit
\* code
Published(success) ==
    run' = [run EXCEPT !.pc = "exit",
                       !.success = IF success THEN "True" ELSE "False",
                       !.exit_code = IF success THEN 0 ELSE 1]

\* a new process: python generate_changelog.py --milestone ... (line 110)
StartRun ==
    /\ run.pc \in {"none", "exit"}
    /\ runs < MaxRuns
    /\ \E args \in ArgsSet, config \in Configs : run' = NewRun(args, config)
    /\ posts' = <<>>
    /\ runs' = runs + 1
    /\ UNCHANGED <<archive, merges, last, output>>

\* lines 112-132
Validate ==
    /\ run.pc = "validate"
    /\ IF config_invalid(run.config) THEN Exit(1)
       ELSE IF run.args.publish_only THEN Goto("publish")
       ELSE Goto("connect")
    /\ UNCHANGED <<archive, merges, last, output, posts, runs>>

\* lines 133-144: the constructor fetches the group and may raise;
\* test_connection gives False when gl.auth() raises
Connect ==
    /\ run.pc = "connect"
    /\ \E outcome \in {"ok", "raises", "auth_fails"} :
          IF outcome = "ok" THEN GotoAfterCall("milestone") ELSE ExitAfterCall(1)
    /\ UNCHANGED <<archive, merges, last, output, posts, runs>>

\* lines 146-160: int(args.milestone) decides the lookup; GitlabGetError of
\* get_milestone_by_id is not caught
GetMilestone ==
    /\ run.pc = "milestone"
    /\ IF IsInt(run.args.milestone)
       THEN IF by_id_raises(IntOf(run.args.milestone)) THEN ExitAfterCall(1)
            ELSE run' = [run EXCEPT !.pc = "mapping", !.api = @ + 1,
                            !.milestone = get_milestone_by_id(IntOf(run.args.milestone))]
       ELSE IF get_milestone_by_name(run.args.milestone) = NoMilestone
            THEN ExitAfterCall(1)
            ELSE run' = [run EXCEPT !.pc = "mapping", !.api = @ + 1,
                            !.milestone = get_milestone_by_name(run.args.milestone)]
    /\ UNCHANGED <<archive, merges, last, output, posts, runs>>

\* lines 162-170
ParseMapping ==
    /\ run.pc = "mapping"
    /\ IF run.config.repositories = <<"-">> \/ run.config.repositories = <<>>
       THEN Exit(1)
       ELSE run' = [run EXCEPT !.pc = "fetch",
                       !.repository_mapping = parse_repository_mapping(run.config),
                       !.urls = project_urls(run.config.repositories,
                                             parse_repository_mapping(run.config))]
    /\ UNCHANGED <<archive, merges, last, output, posts, runs>>

\* lines 172-180
GetClosedIssues ==
    /\ run.pc = "fetch"
    /\ \E list_raises \in BOOLEAN, unresolved \in SUBSET {7, 8} :
          run' = [run EXCEPT !.pc = after_get_closed_issues, !.api = @ + 1,
                     !.list_failed = list_raises,
                     !.issues = get_closed_issues(run.milestone.title, run.urls,
                                                  list_raises, unresolved)]
    /\ UNCHANGED <<archive, merges, last, output, posts, runs>>

\* lines 187-188
start_date(milestone) ==
    IF milestone.start_date # "" THEN fromisoformat(milestone.start_date) ELSE None

due_date(milestone) ==
    IF milestone.due_date # "" THEN fromisoformat(milestone.due_date) ELSE None

MainCall ==
    Call(run.milestone.title, start_date(run.milestone), due_date(run.milestone),
         run.issues)

Merging(res) ==
    IF res.did = "raised" THEN Exit(1)
    ELSE run' = [run EXCEPT !.pc = "merge_open", !.year = res.year,
                    !.before = archive[res.year], !.pending = res.archive[res.year].text,
                    !.merge = "started", !.others = archive]

\* append_to_year_changelog, lines 189-246: all it does before it opens the
\* year-file for writing; ChangelogGenerator was given repository_mapping
\* (line 184)
MergeRead ==
    /\ run.pc = "merge"
    /\ Merging(AppendResult(run.repository_mapping, archive, MainCall, Clock(merges)))
    /\ merges' = merges + 1
    /\ UNCHANGED <<archive, last, output, posts, runs>>

\* open(year_file, 'w') of line 249 or 255: the file is created or truncated
MergeOpen ==
    /\ run.pc = "merge_open"
    /\ archive' = [archive EXCEPT ![run.year] = File("")]
    /\ Goto("merge_write")
    /\ UNCHANGED <<merges, last, output, posts, runs>>

\* f.write and the close of the with block, lines 250 or 256-258
MergeWrite ==
    /\ run.pc = "merge_write"
    /\ archive' = [archive EXCEPT ![run.year] = File(run.pending)]
    /\ run' = [run EXCEPT !.pc = after_append, !.merge = "written"]
    /\ UNCHANGED <<merges, last, output, posts, runs>>

\* generate_markdown_file, lines 199-206 and 158-166
GenerateFile ==
    /\ run.pc = "generate"
    /\ IF GenerateRaises(run.repository_mapping, run.issues)
       THEN Exit(1) /\ UNCHANGED output
       ELSE /\ output' = File(generate_changelog(run.repository_mapping,
                                  run.milestone.title, start_date(run.milestone),
                                  due_date(run.milestone), run.issues))
            /\ run' = [run EXCEPT !.pc = "publish", !.generated = TRUE]
    /\ UNCHANGED <<archive, merges, last, posts, runs>>

\* publish going on to the requests also in a dry run
publish_never_returns_early(dry_run) == FALSE

\* publish, lines 69-73: a dry run prints the text and returns True
publish_returns_early(dry_run) == dry_run

\* lines 208-229 up to the first request: publish_from_file reads the file
\* (FileNotFoundError: it returns False), publish returns True at once for a
\* dry run
Publish ==
    /\ run.pc = "publish"
    /\ IF ~run.config.webhook THEN Exit(0)
       ELSE IF ~output.exists THEN Published(FALSE)
       ELSE IF publish_returns_early(run.args.dry_run) THEN Published(TRUE)
       ELSE run' = [run EXCEPT !.pc = "post", !.i = 1,
                       !.chunks = chunk_message(output.text, SlackMaxLength)]
    /\ UNCHANGED <<archive, merges, last, output, posts, runs>>

\* one pass of the loop of lines 78-102: requests.post and its outcome
PostChunk ==
    /\ run.pc = "post"
    /\ posts' = Append(posts, payload_text(run.chunks, run.i))
    /\ \E outcome \in PostOutcomes :
          IF outcome # "ok" THEN Published(FALSE)
          ELSE IF run.i = Len(run.chunks) THEN Published(TRUE)
          ELSE run' = [run EXCEPT !.i = run.i + 1]
    /\ UNCHANGED <<archive, merges, last, output, runs>>

\* the process is killed, at any point of the run: it leaves no exit status
\* of its own
Interrupt ==
    /\ run.pc \notin {"none", "exit"}
    /\ Goto("exit")
    /\ UNCHANGED <<archive, merges, last, output, posts, runs>>

NextMain ==
    \/ StartRun
    \/ Validate
    \/ Connect
    \/ GetMilestone
    \/ ParseMapping
    \/ GetClosedIssues
    \/ MergeRead
    \/ MergeOpen
    \/ MergeWrite
    \/ GenerateFile
    \/ Publish
    \/ PostChunk
    \/ Interrupt

SpecMain == Init /\ [][NextMain]_vars

----------------------------------------------------------------------------
(* Properties of a run of main *)

\* C7: at every point of a merge, also when the run is killed between the
\* start and the end of the write, the year-file holds the complete text from
\* before the merge or the complete new text.
C7_AtomicUpdate ==
    (run.pc # "none" /\ run.merge # "none") =>
        ReadYearFile(archive[run.year]) \in {ReadYearFile(run.before), run.pending}

\* C8: in a run that generates a changelog, the merge is complete when the
\* first publish request is attempted, and from then on, whatever the
\* requests end in, every year-file is as the merge left it.
C8_ArchiveBeforePublish ==
    (run.pc # "none" /\ ~run.args.publish_only /\ (run.pc = "post" \/ posts # <<>>)) =>
        /\ run.merge = "written"
        /\ archive = [run.others EXCEPT ![run.year] = File(run.pending)]

\* C8, its case: a run that replaced a block of the year-file and whose
\* publish request failed
C8_Witness ==
    /\ run.pc = "exit"
    /\ ~run.args.publish_only
    /\ run.exit_code = 1
    /\ posts # <<>>
    /\ run.before.exists
    /\ run.pending # run.before.text

\* the issue line stands in the section of the product: after the section's
\* title line and before the blank line that ends the section
InSection(text, product, line) ==
    \E h \in Occ(text, "\n**" \o product \o "** (") :
        \E l \in Occ(text, "\n" \o line \o "\n") :
            /\ l > h
            /\ ~\E b \in Occ(text, "\n\n") : h < b /\ b < l

\* the products the configuration lists the repository of the issue under
ProductsOf(repository_mapping, issue) ==
    {p \in DOMAIN repository_mapping :
        rstrip_chars(issue.project_url, "/")
            \in normalized_urls(repository_mapping[p].l)}

\* C10: the changelog a run renders lists every fetched issue in the section
\* of the product its repository is configured under, and under
\* Uncategorized only the issues of a repository with no product.
C10_ClassifiedByProduct ==
    (run.pc # "none" /\ run.generated) =>
        \A i \in 1..Len(run.issues) :
            /\ \A p \in ProductsOf(run.repository_mapping, run.issues[i]) :
                   InSection(output.text, p, format_issue_line(run.issues[i]))
            /\ ProductsOf(run.repository_mapping, run.issues[i]) # {}
                   => ~InSection(output.text, "Uncategorized",
                                 format_issue_line(run.issues[i]))

----------------------------------------------------------------------------
(* generate_changelog on its own: the inputs of a rendering *)

\* mappings repository URL -> product; "" is a value that `not product`
\* takes for no product
RenderMappings ==
    {(UrlA :> PyStr("apple")) @@ (UrlB :> PyStr("Zebra")),
     (UrlA :> PyStr("Zebra")) @@ (UrlB :> PyStr("Uncategorized")) @@ (UrlX :> PyStr("apple")),
     (UrlA :> PyStr("Core")) @@ (UrlB :> PyStr("Core")) @@ (UrlX :> PyStr(""))}

\* the issues a rendering draws from: titles that differ in case only, and
\* an upper-case title that code point order puts before a lower-case one
RenderIssues ==
    {Issue(1, "Zeta", <<>>, "svc-a", UrlA, 0),
     Issue(2, "alpha", <<"bug">>, "svc-a", UrlA, 1800),
     Issue(3, "Beta", <<>>, "svc-b", UrlB, 0),
     Issue(4, "beta", <<"@x">>, "svc-a", UrlA, 0),
     Issue(5, "Tidy", <<>>, "other", UrlX, 0)}

\* issues of one rendering
MaxIssues == 3

\* the lists of at most MaxIssues different issues
RenderIssueLists ==
    UNION {{l \in [1..n -> RenderIssues] : \A i, j \in 1..n : l[i] = l[j] => i = j} :
              n \in 0..MaxIssues}

RenderCalls ==
    {Call(t, s, d, i) : t \in {"S1", "R1999"},
                        s \in {None, Date(2025, 1, 1)},
                        d \in {None, Date(2025, 11, 5)},
                        i \in RenderIssueLists}

InitRender ==
    /\ archive = [y \in Years |-> Absent]
    /\ merges = 0
    /\ last = NoLast
    /\ \E m \in RenderMappings, call \in RenderCalls :
          run = [pc |-> "render", repos_to_products |-> m, call |-> call]
    /\ output = Absent
    /\ posts = <<>>
    /\ runs = 0

\* generate_changelog(milestone_name, milestone_dates, issues), its result kept
Render ==
    /\ run.pc = "render"
    /\ output' = File(generate_changelog(run.repos_to_products, run.call.milestone_name,
                          run.call.start_date, run.call.due_date, run.call.issues))
    /\ run' = [run EXCEPT !.pc = "rendered"]
    /\ UNCHANGED <<archive, merges, last, posts, runs>>

NextRender == Render

SpecRender == InitRender /\ [][NextRender]_vars

----------------------------------------------------------------------------
(* Properties of a rendered entry *)

\* the product an issue belongs to: the one its repository URL is mapped to,
\* "Uncategorized" when it is mapped to none
ClaimProduct(m, issue) ==
    IF issue.project_url \in DOMAIN m /\ m[issue.project_url].s # ""
    THEN m[issue.project_url].s
    ELSE "Uncategorized"

\* the issues of a product, in the order given
IssuesOf(m, issues, product) ==
    SelectSeq(issues, LAMBDA x : ClaimProduct(m, x) = product)

\* the product names of RenderMappings other than "Uncategorized", ascending
NamesAscending == <<"Core", "Zebra", "apple">>

\* where the section of a product starts in the text: its title line
SectionsAt(text, product) == Occ(text, "\n**" \o product \o "** (")

\* the lines of the section of a product, after its title line and up to the
\* blank line that ends it
SectionBody(text, h) ==
    SubSeq(text, Min({i \in Occ(text, "\n") : i > h}) + 1,
                 Min({i \in Occ(text, "\n\n") : i > h}) - 1)

SectionLines(text, product) ==
    split(SectionBody(text, Min(SectionsAt(text, product))), "\n")

\* C11: the sections of the products other than Uncategorized stand in
\* ascending order of product name, and the Uncategorized section, present
\* when an issue has no product, stands after all of them.
C11_ProductOrder ==
    run.pc = "rendered" =>
        /\ \A i, j \in 1..Len(NamesAscending) :
              (/\ i < j
               /\ IssuesOf(run.repos_to_products, run.call.issues, NamesAscending[i]) # <<>>
               /\ IssuesOf(run.repos_to_products, run.call.issues, NamesAscending[j]) # <<>>)
              => /\ Cardinality(SectionsAt(output.text, NamesAscending[i])) = 1
                 /\ Cardinality(SectionsAt(output.text, NamesAscending[j])) = 1
                 /\ Min(SectionsAt(output.text, NamesAscending[i]))
                        < Min(SectionsAt(output.text, NamesAscending[j]))
        /\ IssuesOf(run.repos_to_products, run.call.issues, "Uncategorized") # <<>>
              => /\ Cardinality(SectionsAt(output.text, "Uncategorized")) = 1
                 /\ \A i \in 1..Len(NamesAscending) :
                       \A h \in SectionsAt(output.text, NamesAscending[i]) :
                           h < Min(SectionsAt(output.text, "Uncategorized"))

\* C11, its case: three sections, Uncategorized among them, whose name comes
\* first by code points
C11_Witness ==
    /\ run.pc = "rendered"
    /\ SectionsAt(output.text, "Uncategorized") # {}
    /\ SectionsAt(output.text, "Zebra") # {}
    /\ SectionsAt(output.text, "apple") # {}

\* the titles of RenderIssues by their place in the case-insensitive order
ClaimTitleRank ==
    ("alpha" :> 1) @@ ("Beta" :> 2) @@ ("beta" :> 2) @@ ("Tidy" :> 3) @@ ("Zeta" :> 4)

\* the lines are those of the issues, each issue once, in an order (perm)
\* in which the titles ascend
ListedAscending(lines, issues) ==
    /\ Len(lines) = Len(issues)
    /\ \E perm \in [1..Len(issues) -> 1..Len(issues)] :
          /\ \A i, j \in 1..Len(issues) : perm[i] = perm[j] => i = j
          /\ \A k \in 1..Len(issues) : lines[k] = format_issue_line(issues[perm[k]])
          /\ \A k \in 1..(Len(issues) - 1) :
                ClaimTitleRank[issues[perm[k]].title]
                    <= ClaimTitleRank[issues[perm[k + 1]].title]

\* C12: every product section lists the issues of the product, each exactly
\* once, in ascending order of title compared without regard to case.
C12_IssueOrder ==
    run.pc = "rendered" =>
        \A p \in {"Core", "Zebra", "apple", "Uncategorized"} :
            IssuesOf(run.repos_to_products, run.call.issues, p) # <<>> =>
                /\ SectionsAt(output.text, p) # {}
                /\ ListedAscending(SectionLines(output.text, p),
                                   IssuesOf(run.repos_to_products, run.call.issues, p))

\* C12, its case: one section of three issues given as Zeta, beta, alpha
C12_Witness ==
    /\ run.pc = "rendered"
    /\ Len(run.call.issues) = 3
    /\ run.call.issues[1].title = "Zeta"
    /\ run.call.issues[2].title = "beta"
    /\ run.call.issues[3].title = "alpha"
    /\ SectionsAt(output.text, "Core") # {}
    /\ Len(SectionLines(output.text, "Core")) = 3

\* the one character U+2192 (rightwards arrow), written here in ASCII
RightArrow == "->"

\* a date as YYYY-MM-DD, N/A for none: the dates of RenderCalls
ClaimDate(d) ==
    IF d = None THEN "N/A"
    ELSE IF d = Date(2025, 1, 1) THEN "2025-01-01"
    ELSE "2025-11-05"

\* C19: a rendered entry starts with the line
\* **Changelog - <title>** (<start> U+2192 <due>) and a blank line, the dates
\* as YYYY-MM-DD or N/A; so it starts with the key the merge looks for.
C19_HeaderLine ==
    run.pc = "rendered" =>
        /\ StartsWith(output.text,
               "**Changelog - " \o run.call.milestone_name \o "** ("
               \o ClaimDate(run.call.start_date) \o " " \o RightArrow \o " "
               \o ClaimDate(run.call.due_date) \o ")\n\n")
        /\ StartsWith(output.text, MilestoneKey(run.call.milestone_name))

----------------------------------------------------------------------------
(* The order of the blocks of a year-file *)

\* the top-level blocks of the text: (position, title), for the titles of Titles
BlockSet(text) == UNION {{<<i, t>> : i \in Blocks(text, t)} : t \in Titles}

\* the titles of the blocks (a set of (position, title)), from the top down
BlockTitles(blocks) ==
    [k \in 1..Cardinality(blocks) |->
        (CHOOSE b \in blocks : Cardinality({c \in blocks : c[1] < b[1]}) = k - 1)[2]]

Reverse(seq) == [k \in 1..Len(seq) |-> seq[Len(seq) + 1 - k]]

\* C13: the blocks of a year-file are those of the milestones merged into it,
\* in reverse order of their first merge; a later merge of a milestone leaves
\* its block where it is.
C13_BlockOrder ==
    \A y \in Years :
        BlockTitles(BlockSet(ReadYearFile(archive[y]))) = Reverse(last.order[y])

----------------------------------------------------------------------------
(* Properties of a dry run *)

\* C14 as stated: in a run with --dry-run no request is sent and
\* publish_from_file returns success.
C14_DryRun ==
    (run.pc # "none" /\ run.args.dry_run) =>
        /\ posts = <<>>
        /\ run.success # "False"

\* C14: in a run with --dry-run no request is sent; publish_from_file returns
\* success when the output file exists, and failure (exit code 1) when there
\* is no such file.
C14_DryRunReadable ==
    (run.pc # "none" /\ run.args.dry_run) =>
        /\ posts = <<>>
        /\ run.success # "none" =>
              /\ run.success = "True" <=> output.exists
              /\ run.exit_code = IF output.exists THEN 0 ELSE 1

\* C14, its case: a dry run that generated the changelog, with a webhook
\* configured, and ended with success
C14_Witness ==
    /\ run.pc = "exit"
    /\ run.args.dry_run
    /\ run.config.webhook
    /\ run.generated
    /\ run.success = "True"
    /\ run.exit_code = 0

----------------------------------------------------------------------------
(* _chunk_message on its own *)

\* the greatest max_length of a call
MaxChunkLength == 4

\* lines of a text: empty, shorter than, one short of and as long as the
\* greatest max_length
ChunkLines == {"", "a", "bbb", "cccc"}

\* lines of a text
MaxLines == 3

\* the texts of one to MaxLines lines
ChunkTexts ==
    UNION {{Join("\n", l) : l \in [1..n -> ChunkLines]} : n \in 1..MaxLines}

InitChunk ==
    /\ archive = [y \in Years |-> Absent]
    /\ merges = 0
    /\ last = NoLast
    /\ \E text \in ChunkTexts, max_length \in 1..MaxChunkLength :
          run = [pc |-> "chunk", text |-> text, max_length |-> max_length,
                 chunks |-> <<>>]
    /\ output = Absent
    /\ posts = <<>>
    /\ runs = 0

\* self._chunk_message(text, max_length), its result kept
ChunkMessage ==
    /\ run.pc = "chunk"
    /\ run' = [run EXCEPT !.pc = "chunked",
                          !.chunks = chunk_message(run.text, run.max_length)]
    /\ UNCHANGED <<archive, merges, last, output, posts, runs>>

NextChunk == ChunkMessage

SpecChunk == InitChunk /\ [][NextChunk]_vars

\* C15: a text that fits is returned as the one chunk; otherwise the chunks,
\* joined with a newline, are the text: whole lines, in order, none split,
\* dropped, repeated or added.
C15_ChunkFaithful ==
    run.pc = "chunked" =>
        IF Len(run.text) <= run.max_length
        THEN run.chunks = <<run.text>>
        ELSE Join("\n", run.chunks) = run.text

\* C20: every chunk has at most max_length characters and is not empty.
C20_ChunkBound ==
    run.pc = "chunked" =>
        \A k \in 1..Len(run.chunks) :
            /\ Len(run.chunks[k]) <= run.max_length
            /\ run.chunks[k] # ""

----------------------------------------------------------------------------
(* Properties of a run that fails early *)

\* the configuration has no gitlab section, or no url, token or group_id in it
ConfigIncomplete(config) ==
    "url" \notin config.gitlab \/ "token" \notin config.gitlab
        \/ "group_id" \notin config.gitlab

\* the run has done nothing but fail: no year-file and no output file is
\* other than the run found it, no request was sent, and when main has
\* returned (the run was not killed) the exit code is 1
NothingDone ==
    /\ archive = run.archive0
    /\ output = run.output0
    /\ posts = <<>>
    /\ (run.pc = "exit" /\ run.exit_code # -1) => run.exit_code = 1

\* C16: with an incomplete configuration main returns 1 before any call to
\* the hosting API, any write of a year-file or of the output file and any
\* publish request; in publish-only mode too.
C16_ConfigFirst ==
    (run.pc # "none" /\ ConfigIncomplete(run.config)) =>
        /\ run.pc \in {"validate", "exit"}
        /\ run.api = 0
        /\ NothingDone

\* C16, its case: a publish-only run without gitlab.token that returned 1,
\* with a webhook configured and an output file of an earlier run to publish
C16_Witness ==
    /\ run.pc = "exit"
    /\ run.exit_code = 1
    /\ run.args.publish_only
    /\ ~run.args.dry_run
    /\ run.config.webhook
    /\ run.config.gitlab = {"url", "group_id"}
    /\ output.exists

\* the values of --milestone that name no milestone: a title that no
\* milestone has, and a number that is no milestone's id
NotFoundArgs == {"S9", "99"}

\* C17: when the milestone is not found, by name or by id, the run ends with
\* exit code 1, no year-file and no output file is created or modified, and
\* nothing is published.
C17_MilestoneNotFound ==
    (/\ run.pc # "none"
     /\ ~run.args.publish_only
     /\ ~ConfigIncomplete(run.config)
     /\ run.args.milestone \in NotFoundArgs) =>
        /\ run.pc \in {"validate", "connect", "milestone", "exit"}
        /\ NothingDone

\* C17, its case: the lookup by id failed, in a run that found a year-file
\* and an output file of an earlier run
C17_Witness ==
    /\ run.pc = "exit"
    /\ run.exit_code = 1
    /\ run.args.milestone = "99"
    /\ ~run.args.publish_only
    /\ run.api = 2
    /\ output.exists
    /\ \E y \in Years : archive[y].exists

----------------------------------------------------------------------------
(* get_closed_issues on its own *)

\* repository URLs of a call: with and without a trailing slash, one of a
\* project with no issue, one that is the start of another
FetchUrls == {UrlA, UrlA \o "/", UrlB \o "/", UrlX, "https://git/g/svc"}

\* repository URLs of one call
MaxUrls == 2

FetchUrlLists == UNION {[1..n -> FetchUrls] : n \in 0..MaxUrls}

InitFetch ==
    /\ archive = [y \in Years |-> Absent]
    /\ merges = 0
    /\ last = NoLast
    /\ \E title \in {"S1", "S9"}, urls \in FetchUrlLists, list_raises \in BOOLEAN,
          unresolved \in SUBSET {3, 7, 8} :
          run = [pc |-> "fetch_issues", milestone_title |-> title, project_urls |-> urls,
                 list_raises |-> list_raises, unresolved |-> unresolved,
                 issue_data |-> <<>>]
    /\ output = Absent
    /\ posts = <<>>
    /\ runs = 0

\* get_closed_issues(milestone_title, project_urls), its result kept
Fetch ==
    /\ run.pc = "fetch_issues"
    /\ run' = [run EXCEPT !.pc = "fetched",
                  !.issue_data = get_closed_issues(run.milestone_title, run.project_urls,
                                                   run.list_raises, run.unresolved)]
    /\ UNCHANGED <<archive, merges, last, output, posts, runs>>

NextFetch == Fetch

SpecFetch == InitFetch /\ [][NextFetch]_vars

\* the URL is in the list, with or without a slash at its end
InRepositorySet(url, urls) ==
    \E k \in 1..Len(urls) : urls[k] = url \/ urls[k] = url \o "/"

\* the numbers of the issues, in order
Iids(issues) == [k \in 1..Len(issues) |-> issues[k].iid]

----------------------------------------------------------------------------
(* Properties of the lookup, of a failed listing and of the other year-files *)

\* C21: main looks the milestone up by name first and by id only after
\* that: when a milestone has the title given, digits only or not, it is the
\* milestone the run works on.
C21_NameFirst ==
    (/\ run.pc # "none"
     /\ ~run.args.publish_only
     /\ run.api >= 2
     /\ \E m \in ServerMilestones : m.title = run.args.milestone) =>
        run.milestone.title = run.args.milestone

\* C22: when the listing of the closed issues failed, a year-file that held
\* a block of the milestone with issues in it is, after the merge, as the run
\* found it: the block is not replaced by one of zero issues.
C22_FailedFetchKeepsBlock ==
    (/\ run.pc # "none"
     /\ run.list_failed
     /\ run.merge = "written") =>
        \A y \in Years :
            (/\ Blocks(ReadYearFile(run.archive0[y]), run.milestone.title) # {}
             /\ Contains(ReadYearFile(run.archive0[y]), "\n* "))
                => archive[y] = run.archive0[y]

\* C23: a merge leaves every year-file but the one of the year rule as it
\* was, absent or with its text; so a block of the milestone in the year-file
\* of an earlier merge stays as it is.
C23_OtherYearFiles ==
    last.did # "none" =>
        \A y \in Years \ {ClaimYear(last.call, last.now)} :
            /\ archive[y].exists = last.archive_before[y].exists
            /\ ReadYearFile(archive[y]) = ReadYearFile(last.archive_before[y])

\* C23, its case: the milestone merged again after its year changed: added
\* to another year-file, its block in the earlier one still there
C23_Witness ==
    /\ last.did = "added"
    /\ last.call.milestone_name = "S1"
    /\ \E y \in Years \ {last.year} :
          /\ Blocks(ReadYearFile(last.archive_before[y]), "S1") # {}
          /\ archive[y] = last.archive_before[y]

====
